---- MODULE Spec2Model ----
(***************************************************************************)
(* Call relay of the phone agent.  One call session is modelled in one of  *)
(* its three relay variants:                                               *)
(*   "realtime"  src/index.js 164-344   carrier <-> model (audio in/out)    *)
(*   "chat"      src/index.js 503-736   carrier -> recognizer -> chat       *)
(*                                     completions -> synthesizer -> carrier*)
(*   "text"      src/unnamed/part_001   carrier -> model (text out) ->      *)
(*                                     synthesizer -> carrier               *)
(* Every socket event handler of the source is one action.  A handler that  *)
(* awaits (the e-mail send, the completion request) is split at the await:  *)
(* the part before it is one action, its continuation another.              *)
(***************************************************************************)
EXTENDS Integers, Sequences, FiniteSets, TLC

(* ------------------------------ bounds -------------------------------- *)
MaxEvents == 5        \* socket events delivered to a realtime or text call session
MaxChatEvents == 4    \* socket events delivered to a chat-completions call session
MaxCalls == 2         \* tool calls the model requests in one call session
MaxText == 1          \* text deltas in one completion stream
MaxUser == 2          \* committed transcripts with text in one call session
MaxChunks == 3        \* payloads passed to TranscriptionService.send
MaxSttMsgs == 1       \* recognizer messages delivered to the TranscriptionService
MaxSvcErrors == 1     \* 'error' events of the TranscriptionService socket
MaxPairEvents == 4    \* socket events delivered to a pair of concurrent sessions
MaxReplies == 3       \* generate() calls made on one TextToSpeechService

(* ----------------------------- vocabulary ------------------------------ *)
Variants == {"realtime", "chat", "text"}
Sockets == {"carrier", "model", "stt", "tts"}

\* provider sockets each variant creates
Providers(v) ==
  CASE v = "realtime" -> {"model"}
    [] v = "chat" -> {"stt", "tts"}
    [] v = "text" -> {"model", "tts"}

StreamSids == {"MZ1"}
NullSid == "null"

\* TextToSpeechService after its constructor: nextExpectedIndex = 0 and
\* speechBuffer = {}; calls and speech record generate() calls and events
NewTts == [nextExpectedIndex |-> 0, speechBuffer |-> {}, env |-> "ok",
           calls |-> <<>>, speech |-> <<>>]

\* no pair of sessions is being observed
NoPair == [on |-> 0, v |-> "none", n |-> 0, st |-> <<>>]
ToolNames == {"schedule_meeting", "create_appointment"}
ArgKinds == {"valid", "noreason", "malformed"}

\* the tool calls the model may request: `reason` is an argument of
\* schedule_meeting only
ToolCallInputs ==
  {in \in ToolNames \X ArgKinds : in[2] = "noreason" => in[1] = "schedule_meeting"}

VARIABLES
  variant,        \* which relay handles the call
  ready,          \* readyState of every socket of the call
  sent,           \* per socket: the send() calls the relay made, in order
  closeReq,       \* per socket: close() calls the relay made
  closeEvt,       \* per socket: 'close' events the socket emitted
  closeSkip,      \* per socket: close() skipped, the socket being CLOSING or CLOSED
  streamSid,      \* let streamSid
  responseActive, \* let responseActive (realtime)
  lastLifecycle,  \* most recent of response.created / response.done received
  calls,          \* tool calls the model has requested, by call id
  pendingTools,   \* call ids whose handler is awaiting sendScheduleEmail
  handled,        \* call ids whose handler has run to its end
  execLog,        \* call ids whose side effect ran (transporter.sendMail called)
  rejections,     \* promise rejections nobody handles
  nFrag,          \* audio fragments received from model / synthesizer
  messages,       \* let messages: the conversation transcript (chat)
  isThinking,     \* let isThinking (chat)
  turns,          \* generateResponse activations that passed the guard (chat)
  cycleCancels,   \* response.cancel messages sent since the last response.created
  nMedia,         \* media messages received from the carrier
  nEv,            \* socket events delivered so far
  isOpen,         \* TranscriptionService: this.isOpen
  pendingMessages,\* TranscriptionService: this.pendingMessages
  wsState,        \* TranscriptionService: this.ws (NONE) and its readyState
  transmitted,    \* TranscriptionService: messages given to ws.send, in order
  submitted,      \* TranscriptionService: payloads passed to send(), in order
  flushedAtOpen,  \* TranscriptionService: messages the open handler flushed
  rcvd,           \* TranscriptionService: recognizer messages received
  emitted,        \* TranscriptionService: events emitted, with the message index
  uncaught,       \* TranscriptionService: exceptions thrown out of a socket listener
  mailed,         \* call ids whose transporter.sendMail resolved
  bareDone,       \* a response.done without status_details was received
  pair,           \* two concurrent call sessions of one server process
  stopSeen,       \* the carrier's stop message has been processed
  tts             \* TextToSpeechService: its fields, generate() calls and events

vars == <<variant, ready, sent, closeReq, closeEvt, closeSkip, streamSid, responseActive,
          lastLifecycle, calls, pendingTools, handled, execLog, rejections,
          nFrag, messages, isThinking, turns, cycleCancels, nMedia, nEv,
          isOpen, pendingMessages, wsState, transmitted, submitted,
          flushedAtOpen, rcvd, emitted, uncaught, mailed, bareDone, pair,
          stopSeen, tts>>

\* the variables of the TranscriptionService
svcVars == <<isOpen, pendingMessages, wsState, transmitted, submitted,
             flushedAtOpen, rcvd, emitted, uncaught>>

\* the variables only the chat-completions relay writes
chatVars == <<messages, isThinking, turns>>

(* ------------------------------ messages ------------------------------- *)
\* an outbound message; `at` is the readyState of the socket at send() time
Msg(t) == [type |-> t, sid |-> "-", payload |-> 0, callId |-> 0,
           output |-> "-", turn |-> 0, at |-> "-"]

\* ws send(): the relay's call is recorded together with the readyState
Send(log, sock, m) ==
  [log EXCEPT ![sock] = Append(@, [m EXCEPT !.at = ready[sock]])]

Count(seq, t) == Cardinality({i \in 1..Len(seq) : seq[i].type = t})

\* ws close(): OPEN or CONNECTING -> CLOSING; a no-op on CLOSING and CLOSED
WsClose(state) == IF state \in {"OPEN", "CONNECTING"} THEN "CLOSING" ELSE state

\* a variant of the guard that closes whatever the readyState is
CloseGuardNone(s) == TRUE

\* `if (ws.readyState === WebSocket.OPEN)` in front of every provider close()
CloseGuard(s) == ready[s] = "OPEN"

\* `if (ws.readyState === WebSocket.OPEN) ws.close()` for each socket of ps;
\* r is the readyState map the handler starts from
CloseIfOpen(r, ps) ==
  /\ ready' = [s \in Sockets |->
                 IF s \in ps /\ CloseGuard(s) THEN WsClose(r[s]) ELSE r[s]]
  /\ closeReq' = [s \in Sockets |->
                    IF s \in ps /\ CloseGuard(s) THEN closeReq[s] + 1 ELSE closeReq[s]]
  /\ closeSkip' = [s \in Sockets |->
                     IF s \in ps /\ ~CloseGuard(s) /\ r[s] \in {"CLOSING", "CLOSED"}
                     THEN closeSkip[s] + 1 ELSE closeSkip[s]]

\* a socket delivers 'message' events while it is OPEN or CLOSING
Receiving(sock) == ready[sock] \in {"OPEN", "CLOSING"}

Budget == nEv < (IF variant = "chat" THEN MaxChatEvents ELSE MaxEvents)

(* -------------------------- malformed messages -------------------------- *)
\* carrier messages that are not what the relay expects: data that JSON.parse
\* rejects, the JSON value null, a start without its start object, a media
\* without its media object
MalformedCarrier == {"unparseable", "null", "start_nostart", "media_nomedia"}

\* provider messages that are not what the relay expects
MalformedProvider == {"unparseable", "null", "unknown_type"}

\* `streamSid = data.start.streamSid`: without a start object the right-hand
\* side throws a TypeError before the assignment; the handler's catch logs it
StartAssign(cur, shape, sid) == IF shape = "start" THEN sid ELSE cur

\* the media case: the message is built (`data.media.payload`) inside the
\* readyState guard and before send(); without a media object that throws
MediaSends(log, p, shape, m) ==
  IF shape = "media" /\ ready[p] = "OPEN" THEN Send(log, p, m) ELSE log

\* connection.on('message') for a malformed carrier message; p is the provider
\* the relay forwards audio to
CarrierMalformed(p) ==
  /\ Budget /\ Receiving("carrier")
  /\ \E shape \in MalformedCarrier :
       /\ streamSid' = StartAssign(streamSid, shape, "undefined")
       /\ sent' = MediaSends(sent, p, shape, Msg("input_audio_buffer.append"))
  /\ nEv' = nEv + 1
  /\ UNCHANGED <<svcVars, stopSeen, tts, mailed, bareDone, pair, cycleCancels, nMedia, variant,
                 closeSkip, ready, closeReq, closeEvt, responseActive,
                 lastLifecycle, calls, pendingTools, handled, execLog,
                 rejections, nFrag, messages, isThinking, turns>>

\* a provider's on('message') for a malformed message: JSON.parse or the read
\* of a property of null throws into the handler's catch, an unknown type
\* matches no branch
ProviderMalformed(p) ==
  /\ Budget /\ Receiving(p)
  /\ \E shape \in MalformedProvider : nEv' = nEv + 1
  /\ UNCHANGED <<svcVars, stopSeen, tts, mailed, bareDone, pair, cycleCancels, nMedia, variant,
                 closeSkip, ready, sent, closeReq, closeEvt, streamSid,
                 responseActive, lastLifecycle, calls, pendingTools, handled,
                 execLog, rejections, nFrag, messages, isThinking, turns>>

(* --------------------------- sendScheduleEmail -------------------------- *)
\* a variant that reports success whatever transporter.sendMail did
sendScheduleEmailAlwaysSuccess(ok) == "success:Meeting request sent via email."

\* ok: transporter.sendMail resolved; its rejection is caught and turned into
\* the failure value
sendScheduleEmail(ok) ==
  IF ok THEN "success:Meeting request sent via email."
        ELSE "failure:Failed to send email."

(* -------------------------------- Init --------------------------------- *)
Init ==
  /\ variant \in Variants
  /\ ready = [s \in Sockets |->
                IF s = "carrier" THEN "OPEN"
                ELSE IF s \in Providers(variant) THEN "CONNECTING"
                ELSE "ABSENT"]
  /\ sent = [s \in Sockets |-> <<>>]
  /\ closeReq = [s \in Sockets |-> 0]
  /\ closeEvt = [s \in Sockets |-> 0]
  /\ closeSkip = [s \in Sockets |-> 0]
  /\ streamSid = NullSid
  /\ responseActive = FALSE
  /\ lastLifecycle = "none"
  /\ calls = <<>>
  /\ pendingTools = {}
  /\ handled = {}
  /\ execLog = <<>>
  /\ rejections = 0
  /\ nFrag = 0
  /\ messages = << [role |-> "system", ref |-> 0, ntools |-> 0, out |-> "-"] >>
  /\ isThinking = FALSE
  /\ turns = <<>>
  /\ cycleCancels = 0
  /\ nMedia = 0
  /\ nEv = 0
  /\ isOpen = FALSE
  /\ pendingMessages = <<>>
  /\ wsState = "NONE"
  /\ transmitted = <<>>
  /\ submitted = <<>>
  /\ flushedAtOpen = 0
  /\ rcvd = <<>>
  /\ emitted = <<>>
  /\ uncaught = 0
  /\ mailed = {}
  /\ bareDone = FALSE
  /\ stopSeen = FALSE
  /\ tts = NewTts
  /\ pair = NoPair

(* ======================= realtime relay (index.js) ====================== *)
RtOn == variant = "realtime"

\* a variant of the open handler that asks for a response before it configures
RtModelOpenCreateFirst ==
  /\ RtOn /\ Budget /\ ready["model"] = "CONNECTING"
  /\ ready' = [ready EXCEPT !["model"] = "OPEN"]
  /\ sent' = [sent EXCEPT !["model"] =
                @ \o << [Msg("response.create") EXCEPT !.at = "OPEN"],
                        [Msg("session.update") EXCEPT !.at = "OPEN"] >>]
  /\ nEv' = nEv + 1
  /\ UNCHANGED chatVars
  /\ UNCHANGED <<svcVars, stopSeen, tts, mailed, bareDone, pair, cycleCancels, nMedia, variant, closeSkip, closeReq, closeEvt, streamSid, responseActive,
                 lastLifecycle, calls, pendingTools, handled, execLog,
                 rejections, nFrag>>

RtModelOpen ==
  /\ RtOn /\ Budget /\ ready["model"] = "CONNECTING"
  /\ ready' = [ready EXCEPT !["model"] = "OPEN"]
  /\ sent' = [sent EXCEPT !["model"] =
                @ \o << [Msg("session.update") EXCEPT !.at = "OPEN"],
                        [Msg("response.create") EXCEPT !.at = "OPEN"] >>]
  /\ nEv' = nEv + 1
  /\ UNCHANGED chatVars
  /\ UNCHANGED <<svcVars, stopSeen, tts, mailed, bareDone, pair, cycleCancels, nMedia, variant, closeSkip, closeReq, closeEvt, streamSid, responseActive,
                 lastLifecycle, calls, pendingTools, handled, execLog,
                 rejections, nFrag>>

RtResponseCreated ==
  /\ RtOn /\ Budget /\ Receiving("model")
  /\ responseActive' = TRUE
  /\ lastLifecycle' = "created"
  /\ cycleCancels' = 0
  /\ nEv' = nEv + 1
  /\ UNCHANGED chatVars
  /\ UNCHANGED <<svcVars, stopSeen, tts, mailed, bareDone, pair, nMedia, variant, closeSkip, ready, sent, closeReq, closeEvt, streamSid, calls,
                 pendingTools, handled, execLog, rejections, nFrag>>

\* the flag is cleared before event.response.status_details is read, so the
\* TypeError of an event without status_details is caught after the reset
\* a variant of the case that logs before it clears the flag
ResponseDoneFlagLogFirst(active, details) == IF details THEN FALSE ELSE active

\* case 'response.done': `responseActive = false` comes first; details tells
\* whether event.response.status_details exists, i.e. whether the log line throws
ResponseDoneFlag(active, details) == FALSE

RtResponseDone ==
  /\ RtOn /\ Budget /\ Receiving("model")
  /\ \E details \in BOOLEAN :
       /\ responseActive' = ResponseDoneFlag(responseActive, details)
       /\ bareDone' = (bareDone \/ ~details)
  /\ lastLifecycle' = "done"
  /\ nEv' = nEv + 1
  /\ UNCHANGED chatVars
  /\ UNCHANGED <<svcVars, stopSeen, tts, mailed, pair, cycleCancels, nMedia, variant, closeSkip, ready, sent, closeReq, closeEvt, streamSid, calls,
                 pendingTools, handled, execLog, rejections, nFrag>>

RtAudioDelta ==
  /\ RtOn /\ Budget /\ Receiving("model")
  /\ nFrag' = nFrag + 1
  /\ sent' = IF streamSid # NullSid
             THEN Send(sent, "carrier",
                       [Msg("media") EXCEPT !.sid = streamSid, !.payload = nFrag + 1])
             ELSE sent
  /\ nEv' = nEv + 1
  /\ UNCHANGED chatVars
  /\ UNCHANGED <<svcVars, stopSeen, tts, mailed, bareDone, pair, cycleCancels, nMedia, variant, closeSkip, ready, closeReq, closeEvt, streamSid, responseActive,
                 lastLifecycle, calls, pendingTools, handled, execLog, rejections>>

\* a variant of the handler that cancels without looking at responseActive
RtSpeechStartedSendsNoGuard(log) ==
  IF streamSid # NullSid
  THEN Send(Send(log, "carrier", [Msg("clear") EXCEPT !.sid = streamSid]),
            "model", Msg("response.cancel"))
  ELSE log

\* a variant of the handler that sends the clear frame twice
RtSpeechStartedSendsTwice(log) ==
  IF streamSid # NullSid
  THEN LET c == [Msg("clear") EXCEPT !.sid = streamSid]
           l == Send(Send(log, "carrier", c), "carrier", c)
       IN IF responseActive THEN Send(l, "model", Msg("response.cancel")) ELSE l
  ELSE log

RtSpeechStartedSends(log) ==
  IF streamSid # NullSid
  THEN LET l == Send(log, "carrier", [Msg("clear") EXCEPT !.sid = streamSid])
       IN IF responseActive THEN Send(l, "model", Msg("response.cancel")) ELSE l
  ELSE log

RtSpeechStarted ==
  /\ RtOn /\ Budget /\ Receiving("model")
  /\ sent' = RtSpeechStartedSends(sent)
  /\ cycleCancels' = cycleCancels + Count(sent'["model"], "response.cancel")
                                    - Count(sent["model"], "response.cancel")
  /\ nEv' = nEv + 1
  /\ UNCHANGED chatVars
  /\ UNCHANGED <<svcVars, stopSeen, tts, mailed, bareDone, pair, nMedia, variant, closeSkip, ready, closeReq, closeEvt, streamSid, responseActive,
                 lastLifecycle, calls, pendingTools, handled, execLog,
                 rejections, nFrag>>

ToolOutput(c, out) == [Msg("function_call_output") EXCEPT !.callId = c, !.output = out]

\* conversation.item.create{function_call_output} followed by response.create
SendToolResult(log, c, out) ==
  Send(Send(log, "model", ToolOutput(c, out)), "model", Msg("response.create"))

RtFunctionCallArgumentsDone ==
  /\ RtOn /\ Budget /\ Receiving("model")
  /\ Len(calls) < MaxCalls
  /\ \E in \in ToolCallInputs :
       LET c == Len(calls) + 1
           name == in[1]
           args == in[2]
       IN
       /\ calls' = Append(calls, [name |-> name, args |-> args, item |-> FALSE])
       /\ IF args = "malformed"
          THEN \* JSON.parse throws, caught by the handler's try/catch
               /\ handled' = handled \cup {c}
               /\ UNCHANGED <<sent, pendingTools, execLog>>
          ELSE IF name = "schedule_meeting"
          THEN \* transporter.sendMail is called; the handler awaits it
               /\ pendingTools' = pendingTools \cup {c}
               /\ execLog' = Append(execLog, c)
               /\ UNCHANGED <<sent, handled>>
          ELSE /\ sent' = SendToolResult(sent, c, "error:Unknown tool")
               /\ handled' = handled \cup {c}
               /\ UNCHANGED <<pendingTools, execLog>>
  /\ nEv' = nEv + 1
  /\ UNCHANGED chatVars
  /\ UNCHANGED <<svcVars, stopSeen, tts, mailed, bareDone, pair, cycleCancels, nMedia, variant, closeSkip, ready, closeReq, closeEvt, streamSid, responseActive,
                 lastLifecycle, rejections, nFrag>>

\* response.output_item.done falls into the default branch of the switch
RtOutputItemDone ==
  /\ RtOn /\ Budget /\ Receiving("model")
  /\ \E c \in 1..Len(calls) :
       /\ ~calls[c].item
       /\ calls' = [calls EXCEPT ![c].item = TRUE]
  /\ nEv' = nEv + 1
  /\ UNCHANGED chatVars
  /\ UNCHANGED <<svcVars, stopSeen, tts, mailed, bareDone, pair, cycleCancels, nMedia, variant, closeSkip, ready, sent, closeReq, closeEvt, streamSid,
                 responseActive, lastLifecycle, pendingTools, handled, execLog,
                 rejections, nFrag>>

\* continuation of the tool handler after `await sendScheduleEmail(...)`
RtEmailDone ==
  /\ RtOn
  /\ \E c \in pendingTools, ok \in BOOLEAN :
       /\ pendingTools' = pendingTools \ {c}
       /\ mailed' = IF ok THEN mailed \cup {c} ELSE mailed
       /\ sent' = SendToolResult(sent, c, sendScheduleEmail(ok))
       /\ handled' = handled \cup {c}
  /\ UNCHANGED chatVars
  /\ UNCHANGED <<svcVars, stopSeen, tts, bareDone, pair, cycleCancels, nMedia, variant, closeSkip, ready, closeReq, closeEvt, streamSid, responseActive,
                 lastLifecycle, calls, execLog, rejections, nFrag, nEv>>

RtModelClose ==
  /\ RtOn /\ Budget /\ ready["model"] \in {"CONNECTING", "OPEN", "CLOSING"}
  /\ ready' = [ready EXCEPT !["model"] = "CLOSED", !["carrier"] = WsClose(@)]
  /\ closeEvt' = [closeEvt EXCEPT !["model"] = @ + 1]
  /\ closeReq' = [closeReq EXCEPT !["carrier"] = @ + 1]
  /\ nEv' = nEv + 1
  /\ UNCHANGED chatVars
  /\ UNCHANGED <<svcVars, stopSeen, tts, mailed, bareDone, pair, cycleCancels, nMedia, variant, closeSkip, sent, streamSid, responseActive, lastLifecycle, calls,
                 pendingTools, handled, execLog, rejections, nFrag>>

\* openAiWs.on('error') only logs
RtModelError ==
  /\ RtOn /\ Budget /\ ready["model"] \in {"CONNECTING", "OPEN", "CLOSING"}
  /\ nEv' = nEv + 1
  /\ UNCHANGED chatVars
  /\ UNCHANGED <<svcVars, stopSeen, tts, mailed, bareDone, pair, cycleCancels, nMedia, variant, closeSkip, ready, sent, closeReq, closeEvt, streamSid,
                 responseActive, lastLifecycle, calls, pendingTools, handled,
                 execLog, rejections, nFrag>>

RtCarrierStart ==
  /\ RtOn /\ Budget /\ Receiving("carrier")
  /\ \E sid \in StreamSids : streamSid' = sid
  /\ nEv' = nEv + 1
  /\ UNCHANGED chatVars
  /\ UNCHANGED <<svcVars, stopSeen, tts, mailed, bareDone, pair, cycleCancels, nMedia, variant, closeSkip, ready, sent, closeReq, closeEvt, responseActive,
                 lastLifecycle, calls, pendingTools, handled, execLog,
                 rejections, nFrag>>

RtCarrierMedia ==
  /\ RtOn /\ Budget /\ Receiving("carrier")
  /\ sent' = IF ready["model"] = "OPEN"
             THEN Send(sent, "model", [Msg("input_audio_buffer.append") EXCEPT !.payload = nMedia + 1])
             ELSE sent
  /\ nMedia' = nMedia + 1
  /\ nEv' = nEv + 1
  /\ UNCHANGED chatVars
  /\ UNCHANGED <<svcVars, stopSeen, tts, mailed, bareDone, pair, cycleCancels, variant, closeSkip, ready, closeReq, closeEvt, streamSid, responseActive,
                 lastLifecycle, calls, pendingTools, handled, execLog,
                 rejections, nFrag>>

RtCarrierStop ==
  /\ RtOn /\ Budget /\ Receiving("carrier")
  /\ CloseIfOpen(ready, {"model"})
  /\ stopSeen' = TRUE
  /\ nEv' = nEv + 1
  /\ UNCHANGED chatVars
  /\ UNCHANGED <<svcVars, tts, mailed, bareDone, pair, cycleCancels, nMedia, variant, sent, closeEvt, streamSid, responseActive,
                 lastLifecycle, calls, pendingTools, handled, execLog,
                 rejections, nFrag>>

RtCarrierClose ==
  /\ RtOn /\ Budget /\ ready["carrier"] \in {"OPEN", "CLOSING"}
  /\ closeEvt' = [closeEvt EXCEPT !["carrier"] = @ + 1]
  /\ CloseIfOpen([ready EXCEPT !["carrier"] = "CLOSED"], {"model"})
  /\ nEv' = nEv + 1
  /\ UNCHANGED chatVars
  /\ UNCHANGED <<svcVars, stopSeen, tts, mailed, bareDone, pair, cycleCancels, nMedia, variant, sent, streamSid, responseActive, lastLifecycle, calls,
                 pendingTools, handled, execLog, rejections, nFrag>>

RtCarrierMalformed == RtOn /\ CarrierMalformed("model")

RtModelMalformed == RtOn /\ ProviderMalformed("model")

RtNext ==
  \/ RtModelOpen \/ RtResponseCreated \/ RtResponseDone \/ RtAudioDelta
  \/ RtSpeechStarted \/ RtFunctionCallArgumentsDone \/ RtOutputItemDone
  \/ RtEmailDone \/ RtModelClose \/ RtModelError
  \/ RtCarrierStart \/ RtCarrierMedia \/ RtCarrierStop \/ RtCarrierClose
  \/ RtCarrierMalformed \/ RtModelMalformed

(* =================== chat-completions relay (index.js) ================== *)
ChatOn == variant = "chat"

rtVars == <<responseActive, lastLifecycle, pendingTools, handled, rejections>>

M(role, ref, ntools, out) == [role |-> role, ref |-> ref, ntools |-> ntools, out |-> out]

NumUser(msgs) == Cardinality({i \in 1..Len(msgs) : msgs[i].role = "user"})

\* completion requests issued and not yet answered to the end of the stream
InFlight(ts) == {t \in 1..Len(ts) : ts[t].pc \in {"create", "stream"}}

\* a variant of generateResponse without the isThinking guard
generateResponseNoGuard(ts, thinking, msgs, parent) ==
  [turns |-> Append(ts, [pc |-> "create", parent |-> parent, req |-> Len(msgs),
                         text |-> 0, tcs |-> <<>>, idx |-> 0]),
   thinking |-> TRUE, started |-> TRUE]

\* generateResponse up to its first await: `if (isThinking) return;`, set the
\* flag, call openai.chat.completions.create with the transcript as it is now
generateResponse(ts, thinking, msgs, parent) ==
  IF thinking
  THEN [turns |-> ts, thinking |-> thinking, started |-> FALSE]
  ELSE [turns |-> Append(ts, [pc |-> "create", parent |-> parent, req |-> Len(msgs),
                              text |-> 0, tcs |-> <<>>, idx |-> 0]),
        thinking |-> TRUE, started |-> TRUE]

\* `finally { isThinking = false }` of activation t, then of every caller that
\* awaits it: the callers resume in microtasks, before any socket event
RECURSIVE Finish(_, _)
Finish(ts, t) ==
  LET ts1 == [ts EXCEPT ![t].pc = "done"]
  IN IF ts[t].parent = 0 THEN ts1 ELSE Finish(ts1, ts[t].parent)

\* the `for (const toolCall of toolCalls)` loop from tool i on, up to the next
\* await (schedule_meeting), a throwing JSON.parse, or the end of the loop
RECURSIVE ToolLoop(_, _, _)
ToolLoop(tcs, i, msgs) ==
  IF i > Len(tcs) THEN [msgs |-> msgs, out |-> "end", idx |-> i]
  ELSE IF calls[tcs[i]].args = "malformed" THEN [msgs |-> msgs, out |-> "throw", idx |-> i]
  ELSE IF calls[tcs[i]].name = "schedule_meeting" THEN [msgs |-> msgs, out |-> "await", idx |-> i]
  ELSE ToolLoop(tcs, i + 1, Append(msgs, M("tool", tcs[i], 0, "error:Unknown tool")))

\* a variant without `finally`: a throwing JSON.parse leaves the flag set
AfterToolsNoFinally(t, r) ==
  /\ messages' = r.msgs
  /\ CASE r.out = "await" ->
            /\ turns' = [turns EXCEPT ![t].pc = "tool", ![t].idx = r.idx]
            /\ execLog' = Append(execLog, turns[t].tcs[r.idx])
            /\ UNCHANGED isThinking
       [] r.out = "throw" ->
            /\ turns' = Finish(turns, t)
            /\ UNCHANGED <<isThinking, execLog>>
       [] r.out = "end" ->
            LET g == generateResponse([turns EXCEPT ![t].pc = "waitChild"],
                                      FALSE, r.msgs, t)
            IN /\ turns' = IF g.started THEN g.turns ELSE Finish(g.turns, t)
               /\ isThinking' = IF g.started THEN g.thinking ELSE FALSE
               /\ UNCHANGED execLog

\* what follows the tool loop's result r in activation t
AfterTools(t, r) ==
  /\ messages' = r.msgs
  /\ CASE r.out = "await" ->
            /\ turns' = [turns EXCEPT ![t].pc = "tool", ![t].idx = r.idx]
            /\ execLog' = Append(execLog, turns[t].tcs[r.idx])
            /\ UNCHANGED isThinking
       [] r.out = "throw" ->
            /\ turns' = Finish(turns, t)
            /\ isThinking' = FALSE
            /\ UNCHANGED execLog
       [] r.out = "end" ->
            \* isThinking = false; await generateResponse(); return; finally
            LET g == generateResponse([turns EXCEPT ![t].pc = "waitChild"],
                                      FALSE, r.msgs, t)
            IN /\ turns' = IF g.started THEN g.turns ELSE Finish(g.turns, t)
               /\ isThinking' = IF g.started THEN g.thinking ELSE FALSE
               /\ UNCHANGED execLog

ChatSttOpen ==
  /\ ChatOn /\ Budget /\ ready["stt"] = "CONNECTING"
  /\ ready' = [ready EXCEPT !["stt"] = "OPEN"]
  /\ nEv' = nEv + 1
  /\ UNCHANGED <<chatVars, rtVars>>
  /\ UNCHANGED <<svcVars, stopSeen, tts, mailed, bareDone, pair, cycleCancels, nMedia, variant, closeSkip, sent, closeReq, closeEvt, streamSid, calls, execLog, nFrag>>

\* elevenLabsSttWs.on('error') only logs
ChatSttError ==
  /\ ChatOn /\ Budget /\ ready["stt"] \in {"CONNECTING", "OPEN", "CLOSING"}
  /\ nEv' = nEv + 1
  /\ UNCHANGED <<chatVars, rtVars>>
  /\ UNCHANGED <<svcVars, stopSeen, tts, mailed, bareDone, pair, cycleCancels, nMedia, variant, closeSkip, ready, sent, closeReq, closeEvt, streamSid, calls, execLog, nFrag>>

\* elevenLabsSttWs.on('close') only logs
ChatSttClose ==
  /\ ChatOn /\ Budget /\ ready["stt"] \in {"CONNECTING", "OPEN", "CLOSING"}
  /\ ready' = [ready EXCEPT !["stt"] = "CLOSED"]
  /\ closeEvt' = [closeEvt EXCEPT !["stt"] = @ + 1]
  /\ nEv' = nEv + 1
  /\ UNCHANGED <<chatVars, rtVars>>
  /\ UNCHANGED <<svcVars, stopSeen, tts, mailed, bareDone, pair, cycleCancels, nMedia, variant, closeSkip, sent, closeReq, streamSid, calls, execLog, nFrag>>

\* a committed transcript (type committed_transcript, or is_final with text)
ChatSttCommitted ==
  /\ ChatOn /\ Budget /\ Receiving("stt")
  /\ \E blank \in BOOLEAN :
       IF blank
       THEN UNCHANGED chatVars
       ELSE /\ NumUser(messages) < MaxUser
            /\ LET msgs == Append(messages, M("user", NumUser(messages) + 1, 0, "-"))
                   g == generateResponse(turns, isThinking, msgs, 0)
               IN /\ messages' = msgs
                  /\ turns' = g.turns
                  /\ isThinking' = g.thinking
  /\ nEv' = nEv + 1
  /\ UNCHANGED rtVars
  /\ UNCHANGED <<svcVars, stopSeen, tts, mailed, bareDone, pair, cycleCancels, nMedia, variant, closeSkip, ready, sent, closeReq, closeEvt, streamSid, calls, execLog, nFrag>>

\* any other recognizer message: partial transcript, bookkeeping, bad JSON
ChatSttOther ==
  /\ ChatOn /\ Budget /\ Receiving("stt")
  /\ nEv' = nEv + 1
  /\ UNCHANGED <<chatVars, rtVars>>
  /\ UNCHANGED <<svcVars, stopSeen, tts, mailed, bareDone, pair, cycleCancels, nMedia, variant, closeSkip, ready, sent, closeReq, closeEvt, streamSid, calls, execLog, nFrag>>

\* `await openai.chat.completions.create(...)` resolves with the stream
ChatCreateResolves ==
  /\ ChatOn
  /\ \E t \in 1..Len(turns) :
       /\ turns[t].pc = "create"
       /\ turns' = [turns EXCEPT ![t].pc = "stream"]
  /\ UNCHANGED <<messages, isThinking, rtVars>>
  /\ UNCHANGED <<svcVars, stopSeen, tts, mailed, bareDone, pair, cycleCancels, nMedia, variant, closeSkip, ready, sent, closeReq, closeEvt, streamSid, calls, execLog, nFrag, nEv>>

\* the request rejects, or the stream throws while it is iterated: catch, finally
ChatCompletionFails ==
  /\ ChatOn
  /\ \E t \in 1..Len(turns) :
       /\ turns[t].pc \in {"create", "stream"}
       /\ turns' = Finish(turns, t)
       /\ isThinking' = FALSE
  /\ UNCHANGED <<messages, rtVars>>
  /\ UNCHANGED <<svcVars, stopSeen, tts, mailed, bareDone, pair, cycleCancels, nMedia, variant, closeSkip, ready, sent, closeReq, closeEvt, streamSid, calls, execLog, nFrag, nEv>>

\* a chunk with delta.content
ChatTextDelta ==
  /\ ChatOn
  /\ \E t \in 1..Len(turns) :
       /\ turns[t].pc = "stream"
       /\ turns[t].text < MaxText
       /\ turns' = [turns EXCEPT ![t].text = @ + 1]
       /\ sent' = IF ready["tts"] = "OPEN"
                  THEN Send(sent, "tts", [Msg("text") EXCEPT !.turn = t,
                                            !.payload = turns[t].text + 1])
                  ELSE sent
  /\ UNCHANGED <<messages, isThinking, rtVars>>
  /\ UNCHANGED <<svcVars, stopSeen, tts, mailed, bareDone, pair, cycleCancels, nMedia, variant, closeSkip, ready, closeReq, closeEvt, streamSid, calls, execLog, nFrag, nEv>>

\* chunks with delta.tool_calls: one tool call accumulated at the next index
ChatToolCallDelta ==
  /\ ChatOn
  /\ Len(calls) < MaxCalls
  /\ \E t \in 1..Len(turns), in \in ToolCallInputs :
       /\ turns[t].pc = "stream"
       /\ calls' = Append(calls, [name |-> in[1], args |-> in[2], item |-> FALSE])
       /\ turns' = [turns EXCEPT ![t].tcs = Append(@, Len(calls) + 1)]
  /\ UNCHANGED <<messages, isThinking, rtVars>>
  /\ UNCHANGED <<svcVars, stopSeen, tts, mailed, bareDone, pair, cycleCancels, nMedia, variant, closeSkip, ready, sent, closeReq, closeEvt, streamSid, execLog, nFrag, nEv>>

\* the stream ends: flush, then the tool calls or the plain assistant message
ChatStreamEnd ==
  /\ ChatOn
  /\ \E t \in 1..Len(turns) :
       /\ turns[t].pc = "stream"
       /\ sent' = IF ready["tts"] = "OPEN"
                  THEN Send(sent, "tts", [Msg("flush") EXCEPT !.turn = t])
                  ELSE sent
       /\ IF Len(turns[t].tcs) > 0
          THEN AfterTools(t, ToolLoop(turns[t].tcs, 1,
                             Append(messages, M("assistant", t, Len(turns[t].tcs), "-"))))
          ELSE /\ messages' = IF turns[t].text > 0
                              THEN Append(messages, M("assistant", t, 0, "-"))
                              ELSE messages
               /\ turns' = Finish(turns, t)
               /\ isThinking' = FALSE
               /\ UNCHANGED execLog
  /\ UNCHANGED rtVars
  /\ UNCHANGED <<svcVars, stopSeen, tts, mailed, bareDone, pair, cycleCancels, nMedia, variant, closeSkip, ready, closeReq, closeEvt, streamSid, calls, nFrag, nEv>>

\* continuation after `await sendScheduleEmail(...)` inside the tool loop
ChatEmailDone ==
  /\ ChatOn
  /\ \E t \in 1..Len(turns), ok \in BOOLEAN :
       /\ turns[t].pc = "tool"
       /\ LET c == turns[t].tcs[turns[t].idx]
          IN /\ mailed' = IF ok THEN mailed \cup {c} ELSE mailed
             /\ AfterTools(t, ToolLoop(turns[t].tcs, turns[t].idx + 1,
                               Append(messages, M("tool", c, 0, sendScheduleEmail(ok)))))
  /\ UNCHANGED rtVars
  /\ UNCHANGED <<svcVars, stopSeen, tts, bareDone, pair, cycleCancels, nMedia, variant, closeSkip, ready, sent, closeReq, closeEvt, streamSid, calls, nFrag, nEv>>

ChatTtsOpen ==
  /\ ChatOn /\ Budget /\ ready["tts"] = "CONNECTING"
  /\ ready' = [ready EXCEPT !["tts"] = "OPEN"]
  /\ sent' = [sent EXCEPT !["tts"] = Append(@, [Msg("init") EXCEPT !.at = "OPEN"])]
  /\ nEv' = nEv + 1
  /\ UNCHANGED <<chatVars, rtVars>>
  /\ UNCHANGED <<svcVars, stopSeen, tts, mailed, bareDone, pair, cycleCancels, nMedia, variant, closeSkip, closeReq, closeEvt, streamSid, calls, execLog, nFrag>>

\* elevenLabsTtsWs.on('error') only logs
ChatTtsError ==
  /\ ChatOn /\ Budget /\ ready["tts"] \in {"CONNECTING", "OPEN", "CLOSING"}
  /\ nEv' = nEv + 1
  /\ UNCHANGED <<chatVars, rtVars>>
  /\ UNCHANGED <<svcVars, stopSeen, tts, mailed, bareDone, pair, cycleCancels, nMedia, variant, closeSkip, ready, sent, closeReq, closeEvt, streamSid, calls, execLog, nFrag>>

\* the synthesizer socket closes; the relay registers no 'close' handler on it
ChatTtsClose ==
  /\ ChatOn /\ Budget /\ ready["tts"] \in {"CONNECTING", "OPEN", "CLOSING"}
  /\ ready' = [ready EXCEPT !["tts"] = "CLOSED"]
  /\ closeEvt' = [closeEvt EXCEPT !["tts"] = @ + 1]
  /\ nEv' = nEv + 1
  /\ UNCHANGED <<chatVars, rtVars>>
  /\ UNCHANGED <<svcVars, stopSeen, tts, mailed, bareDone, pair, cycleCancels, nMedia, variant, closeSkip, sent, closeReq, streamSid, calls, execLog, nFrag>>

\* a variant of the synthesizer handler that drops audio without a streamSid
TtsAudioSendsGuarded(log, sid, n) ==
  IF sid # NullSid
  THEN Send(log, "carrier", [Msg("media") EXCEPT !.sid = sid, !.payload = n])
  ELSE log

\* a variant of the synthesizer handler that sends every fragment twice
TtsAudioSendsTwice(log, sid, n) ==
  Send(Send(log, "carrier", [Msg("media") EXCEPT !.sid = sid, !.payload = n]),
       "carrier", [Msg("media") EXCEPT !.sid = sid, !.payload = n])

\* `if (response.audio)` send a media frame addressed with streamSid as it is
TtsAudioSends(log, sid, n) ==
  Send(log, "carrier", [Msg("media") EXCEPT !.sid = sid, !.payload = n])

ChatTtsMessage ==
  /\ ChatOn /\ Budget /\ Receiving("tts")
  /\ \E audio \in BOOLEAN :
       IF audio
       THEN /\ nFrag' = nFrag + 1
            /\ sent' = TtsAudioSends(sent, streamSid, nFrag + 1)
       ELSE UNCHANGED <<nFrag, sent>>
  /\ nEv' = nEv + 1
  /\ UNCHANGED <<chatVars, rtVars>>
  /\ UNCHANGED <<svcVars, stopSeen, tts, mailed, bareDone, pair, cycleCancels, nMedia, variant, closeSkip, ready, closeReq, closeEvt, streamSid, calls, execLog>>

ChatCarrierStart ==
  /\ ChatOn /\ Budget /\ Receiving("carrier")
  /\ \E sid \in StreamSids : streamSid' = sid
  /\ nEv' = nEv + 1
  /\ UNCHANGED <<chatVars, rtVars>>
  /\ UNCHANGED <<svcVars, stopSeen, tts, mailed, bareDone, pair, cycleCancels, nMedia, variant, closeSkip, ready, sent, closeReq, closeEvt, calls, execLog, nFrag>>

ChatCarrierMedia ==
  /\ ChatOn /\ Budget /\ Receiving("carrier")
  /\ sent' = IF ready["stt"] = "OPEN"
             THEN Send(sent, "stt", [Msg("input_audio_chunk") EXCEPT !.payload = nMedia + 1])
             ELSE sent
  /\ nMedia' = nMedia + 1
  /\ nEv' = nEv + 1
  /\ UNCHANGED <<chatVars, rtVars>>
  /\ UNCHANGED <<svcVars, stopSeen, tts, mailed, bareDone, pair, cycleCancels, variant, closeSkip, ready, closeReq, closeEvt, streamSid, calls, execLog, nFrag>>

ChatCarrierStop ==
  /\ ChatOn /\ Budget /\ Receiving("carrier")
  /\ CloseIfOpen(ready, {"stt", "tts"})
  /\ stopSeen' = TRUE
  /\ nEv' = nEv + 1
  /\ UNCHANGED <<chatVars, rtVars>>
  /\ UNCHANGED <<svcVars, tts, mailed, bareDone, pair, cycleCancels, nMedia, variant, sent, closeEvt, streamSid, calls, execLog, nFrag>>

ChatCarrierClose ==
  /\ ChatOn /\ Budget /\ ready["carrier"] \in {"OPEN", "CLOSING"}
  /\ closeEvt' = [closeEvt EXCEPT !["carrier"] = @ + 1]
  /\ CloseIfOpen([ready EXCEPT !["carrier"] = "CLOSED"], {"stt", "tts"})
  /\ nEv' = nEv + 1
  /\ UNCHANGED <<chatVars, rtVars>>
  /\ UNCHANGED <<svcVars, stopSeen, tts, mailed, bareDone, pair, cycleCancels, nMedia, variant, sent, streamSid, calls, execLog, nFrag>>

ChatCarrierMalformed == ChatOn /\ CarrierMalformed("stt")

ChatNext ==
  \/ ChatSttOpen \/ ChatSttError \/ ChatSttClose \/ ChatSttCommitted \/ ChatSttOther
  \/ ChatCreateResolves \/ ChatCompletionFails \/ ChatTextDelta \/ ChatToolCallDelta
  \/ ChatStreamEnd \/ ChatEmailDone
  \/ ChatTtsOpen \/ ChatTtsError \/ ChatTtsClose \/ ChatTtsMessage
  \/ ChatCarrierStart \/ ChatCarrierMedia \/ ChatCarrierStop \/ ChatCarrierClose
  \/ ChatCarrierMalformed

(* ================= text-modality relay (unnamed/part_001) =============== *)
TxtOn == variant = "text"

TxtModelOpen ==
  /\ TxtOn /\ Budget /\ ready["model"] = "CONNECTING"
  /\ ready' = [ready EXCEPT !["model"] = "OPEN"]
  /\ sent' = [sent EXCEPT !["model"] = Append(@, [Msg("session.update") EXCEPT !.at = "OPEN"])]
  /\ nEv' = nEv + 1
  /\ UNCHANGED <<chatVars, rtVars>>
  /\ UNCHANGED <<svcVars, stopSeen, tts, mailed, bareDone, pair, cycleCancels, nMedia, variant, closeSkip, closeReq, closeEvt, streamSid, calls, execLog, nFrag>>

\* openAiWs.on('error') and elevenLabsWs.on('error') only log
TxtProviderError ==
  /\ TxtOn /\ Budget
  /\ \E p \in {"model", "tts"} : ready[p] \in {"CONNECTING", "OPEN", "CLOSING"}
  /\ nEv' = nEv + 1
  /\ UNCHANGED <<chatVars, rtVars>>
  /\ UNCHANGED <<svcVars, stopSeen, tts, mailed, bareDone, pair, cycleCancels, nMedia, variant, closeSkip, ready, sent, closeReq, closeEvt, streamSid, calls, execLog, nFrag>>

\* openAiWs.on('close') and elevenLabsWs.on('close') only log
TxtProviderClose ==
  /\ TxtOn /\ Budget
  /\ \E p \in {"model", "tts"} :
       /\ ready[p] \in {"CONNECTING", "OPEN", "CLOSING"}
       /\ ready' = [ready EXCEPT ![p] = "CLOSED"]
       /\ closeEvt' = [closeEvt EXCEPT ![p] = @ + 1]
  /\ nEv' = nEv + 1
  /\ UNCHANGED <<chatVars, rtVars>>
  /\ UNCHANGED <<svcVars, stopSeen, tts, mailed, bareDone, pair, cycleCancels, nMedia, variant, closeSkip, sent, closeReq, streamSid, calls, execLog, nFrag>>

TxtTtsOpen ==
  /\ TxtOn /\ Budget /\ ready["tts"] = "CONNECTING"
  /\ ready' = [ready EXCEPT !["tts"] = "OPEN"]
  /\ sent' = [sent EXCEPT !["tts"] = Append(@, [Msg("init") EXCEPT !.at = "OPEN"])]
  /\ nEv' = nEv + 1
  /\ UNCHANGED <<chatVars, rtVars>>
  /\ UNCHANGED <<svcVars, stopSeen, tts, mailed, bareDone, pair, cycleCancels, nMedia, variant, closeSkip, closeReq, closeEvt, streamSid, calls, execLog, nFrag>>

TxtCarrierStart ==
  /\ TxtOn /\ Budget /\ Receiving("carrier")
  /\ \E sid \in StreamSids : streamSid' = sid
  /\ nEv' = nEv + 1
  /\ UNCHANGED <<chatVars, rtVars>>
  /\ UNCHANGED <<svcVars, stopSeen, tts, mailed, bareDone, pair, cycleCancels, nMedia, variant, closeSkip, ready, sent, closeReq, closeEvt, calls, execLog, nFrag>>

TxtCarrierMedia ==
  /\ TxtOn /\ Budget /\ Receiving("carrier")
  /\ sent' = IF ready["model"] = "OPEN"
             THEN Send(sent, "model", [Msg("input_audio_buffer.append") EXCEPT !.payload = nMedia + 1])
             ELSE sent
  /\ nMedia' = nMedia + 1
  /\ nEv' = nEv + 1
  /\ UNCHANGED <<chatVars, rtVars>>
  /\ UNCHANGED <<svcVars, stopSeen, tts, mailed, bareDone, pair, cycleCancels, variant, closeSkip, ready, closeReq, closeEvt, streamSid, calls, execLog, nFrag>>

TxtCarrierStop ==
  /\ TxtOn /\ Budget /\ Receiving("carrier")
  /\ CloseIfOpen(ready, {"model", "tts"})
  /\ stopSeen' = TRUE
  /\ nEv' = nEv + 1
  /\ UNCHANGED <<chatVars, rtVars>>
  /\ UNCHANGED <<svcVars, tts, mailed, bareDone, pair, cycleCancels, nMedia, variant, sent, closeEvt, streamSid, calls, execLog, nFrag>>

TxtCarrierClose ==
  /\ TxtOn /\ Budget /\ ready["carrier"] \in {"OPEN", "CLOSING"}
  /\ closeEvt' = [closeEvt EXCEPT !["carrier"] = @ + 1]
  /\ CloseIfOpen([ready EXCEPT !["carrier"] = "CLOSED"], {"model", "tts"})
  /\ nEv' = nEv + 1
  /\ UNCHANGED <<chatVars, rtVars>>
  /\ UNCHANGED <<svcVars, stopSeen, tts, mailed, bareDone, pair, cycleCancels, nMedia, variant, sent, streamSid, calls, execLog, nFrag>>

\* input_audio_buffer.speech_started: a " " text frame to the synthesizer
TxtSpeechStarted ==
  /\ TxtOn /\ Budget /\ Receiving("model")
  /\ sent' = IF ready["tts"] = "OPEN"
             THEN Send(sent, "tts", Msg("reset"))
             ELSE sent
  /\ nEv' = nEv + 1
  /\ UNCHANGED <<chatVars, rtVars>>
  /\ UNCHANGED <<svcVars, stopSeen, tts, mailed, bareDone, pair, cycleCancels, nMedia, variant, closeSkip, ready, closeReq, closeEvt, streamSid, calls, execLog, nFrag>>

\* response.created / response.done are only logged
TxtResponseLifecycle ==
  /\ TxtOn /\ Budget /\ Receiving("model")
  /\ \E e \in {"created", "done"} : lastLifecycle' = e
  /\ nEv' = nEv + 1
  /\ UNCHANGED <<chatVars, responseActive, pendingTools, handled, rejections>>
  /\ UNCHANGED <<svcVars, stopSeen, tts, mailed, bareDone, pair, cycleCancels, nMedia, variant, closeSkip, ready, sent, closeReq, closeEvt, streamSid, calls, execLog, nFrag>>

TxtTextDelta ==
  /\ TxtOn /\ Budget /\ Receiving("model")
  /\ sent' = IF ready["tts"] = "OPEN"
             THEN Send(sent, "tts", Msg("text"))
             ELSE sent
  /\ nEv' = nEv + 1
  /\ UNCHANGED <<chatVars, rtVars>>
  /\ UNCHANGED <<svcVars, stopSeen, tts, mailed, bareDone, pair, cycleCancels, nMedia, variant, closeSkip, ready, closeReq, closeEvt, streamSid, calls, execLog, nFrag>>

\* response.function_call_arguments.done: an empty branch
TxtFunctionCallArgumentsDone ==
  /\ TxtOn /\ Budget /\ Receiving("model")
  /\ Len(calls) < MaxCalls
  /\ \E in \in ToolCallInputs :
       calls' = Append(calls, [name |-> in[1], args |-> in[2], item |-> FALSE])
  /\ nEv' = nEv + 1
  /\ UNCHANGED <<chatVars, rtVars>>
  /\ UNCHANGED <<svcVars, stopSeen, tts, mailed, bareDone, pair, cycleCancels, nMedia, variant, closeSkip, ready, sent, closeReq, closeEvt, streamSid, execLog, nFrag>>

\* response.output_item.done with a function_call item: handleFunctionCall(item)
\* is called and not awaited; it runs up to its first await
TxtOutputItemDone ==
  /\ TxtOn /\ Budget /\ Receiving("model")
  /\ \E c \in 1..Len(calls) :
       /\ ~calls[c].item
       /\ calls' = [calls EXCEPT ![c].item = TRUE]
       /\ IF calls[c].name = "schedule_meeting"
          THEN IF calls[c].args = "malformed"
               THEN \* JSON.parse throws inside the async function
                    /\ rejections' = rejections + 1
                    /\ handled' = handled \cup {c}
                    /\ UNCHANGED <<pendingTools, execLog>>
               ELSE /\ pendingTools' = pendingTools \cup {c}
                    /\ execLog' = Append(execLog, c)
                    /\ UNCHANGED <<handled, rejections>>
          ELSE /\ handled' = handled \cup {c}
               /\ UNCHANGED <<pendingTools, execLog, rejections>>
  /\ nEv' = nEv + 1
  /\ UNCHANGED <<chatVars, responseActive, lastLifecycle>>
  /\ UNCHANGED <<svcVars, stopSeen, tts, mailed, bareDone, pair, cycleCancels, nMedia, variant, closeSkip, ready, sent, closeReq, closeEvt, streamSid, nFrag>>

\* continuation of handleFunctionCall after `await sendScheduleEmail(...)`
TxtEmailDone ==
  /\ TxtOn
  /\ \E c \in pendingTools, ok \in BOOLEAN :
       /\ pendingTools' = pendingTools \ {c}
       /\ mailed' = IF ok THEN mailed \cup {c} ELSE mailed
       /\ sent' = SendToolResult(sent, c, sendScheduleEmail(ok))
       /\ handled' = handled \cup {c}
  /\ UNCHANGED <<chatVars, responseActive, lastLifecycle, rejections>>
  /\ UNCHANGED <<svcVars, stopSeen, tts, bareDone, pair, cycleCancels, nMedia, variant, closeSkip, ready, closeReq, closeEvt, streamSid, calls, execLog, nFrag, nEv>>

TxtTtsMessage ==
  /\ TxtOn /\ Budget /\ Receiving("tts")
  /\ \E audio \in BOOLEAN :
       IF audio
       THEN /\ nFrag' = nFrag + 1
            /\ sent' = TtsAudioSends(sent, streamSid, nFrag + 1)
       ELSE UNCHANGED <<nFrag, sent>>
  /\ nEv' = nEv + 1
  /\ UNCHANGED <<chatVars, rtVars>>
  /\ UNCHANGED <<svcVars, stopSeen, tts, mailed, bareDone, pair, cycleCancels, nMedia, variant, closeSkip, ready, closeReq, closeEvt, streamSid, calls, execLog>>

TxtCarrierMalformed == TxtOn /\ CarrierMalformed("model")

TxtModelMalformed == TxtOn /\ ProviderMalformed("model")

TxtNext ==
  \/ TxtModelOpen \/ TxtProviderError \/ TxtProviderClose \/ TxtTtsOpen
  \/ TxtCarrierStart \/ TxtCarrierMedia \/ TxtCarrierStop \/ TxtCarrierClose
  \/ TxtSpeechStarted \/ TxtResponseLifecycle \/ TxtTextDelta
  \/ TxtFunctionCallArgumentsDone \/ TxtOutputItemDone \/ TxtEmailDone
  \/ TxtTtsMessage \/ TxtCarrierMalformed \/ TxtModelMalformed

Next == RtNext \/ ChatNext \/ TxtNext

Spec == Init /\ [][Next]_vars

\* one call session of each relay variant on its own
InitRt == Init /\ variant = "realtime"
InitChat == Init /\ variant = "chat"
InitTxt == Init /\ variant = "text"
SpecRt == InitRt /\ [][RtNext]_vars
SpecChat == InitChat /\ [][ChatNext]_vars
SpecTxt == InitTxt /\ [][TxtNext]_vars
(* ========== TranscriptionService (services/transcription-service.js) ===== *)
\* every relay variable except the event counter
relayVars == <<variant, ready, sent, closeReq, closeEvt, closeSkip, streamSid,
               responseActive, lastLifecycle, calls, pendingTools, handled,
               execLog, rejections, nFrag, messages, isThinking, turns,
               cycleCancels, nMedia, mailed, bareDone, pair, stopSeen, tts>>

\* strings are sequences: a discriminator is a sequence of its '_'-separated
\* words, a text a sequence of characters; the empty sequence is the empty
\* string, which JavaScript treats like an absent field in `a || b` and `!a`
None == <<>>
SttTypes == {<<"session", "started">>, <<"error">>, <<"partial", "transcript">>,
             <<"committed", "transcript">>, <<"unknown">>}
Texts == {<<>>, <<" ">>, <<"h", "i">>}

Absent == [kind |-> "absent", val |-> <<>>]
Str(v) == [kind |-> "string", val |-> v]
Obj(v) == [kind |-> "object", val |-> v]

\* the shapes in which a recognizer message carries its text
TextShapes ==
  {[text |-> Absent, transcript |-> Absent, partial_transcript |-> Absent,
    committed_transcript |-> Absent]}
  \cup {[text |-> Str(v), transcript |-> Absent, partial_transcript |-> Absent,
         committed_transcript |-> Absent] : v \in Texts}
  \cup {[text |-> Absent, transcript |-> Absent, partial_transcript |-> Obj(v),
         committed_transcript |-> Str(<<"x">>)] : v \in Texts}

NoText == [text |-> Absent, transcript |-> Absent, partial_transcript |-> Absent,
           committed_transcript |-> Absent]

\* recognizer messages by what JSON.parse makes of the data: it throws
\* ("unparseable"), returns null ("null"), or returns an object
SttMessages ==
  {[shape |-> sh, message_type |-> None, type |-> None, body |-> NoText] :
     sh \in {"unparseable", "null"}}
  \cup {[shape |-> "object", message_type |-> mt, type |-> ty, body |-> b] :
          mt \in SttTypes \cup {None},
          ty \in {None, <<"committed", "transcript">>},
          b \in TextShapes}

\* const type = msg.message_type || msg.type
Disc(msg) == IF msg.message_type # None THEN msg.message_type ELSE msg.type

\* String.prototype.includes, for a whole word of the discriminator
Includes(type, w) == \E i \in 1..Len(type) : type[i] = w

\* String.prototype.trim
RECURSIVE Trim(_)
Trim(t) ==
  IF t = <<>> THEN t
  ELSE IF Head(t) = " " THEN Trim(Tail(t))
  ELSE IF t[Len(t)] = " " THEN Trim(SubSeq(t, 1, Len(t) - 1))
  ELSE t

extractText(b) ==
  IF b.text.kind = "string" THEN b.text.val
  ELSE IF b.transcript.kind = "string" THEN b.transcript.val
  ELSE IF b.partial_transcript.kind = "string" THEN b.partial_transcript.val
  ELSE IF b.committed_transcript.kind = "string" THEN b.committed_transcript.val
  ELSE IF b.partial_transcript.kind = "object" THEN b.partial_transcript.val
  ELSE IF b.committed_transcript.kind = "object" THEN b.committed_transcript.val
  ELSE <<>>

\* a variant of the message handler that tests 'committed' before 'partial'
\* and does not return after the first emit
ClassifyNoReturn(msg) ==
  IF msg.shape = "unparseable" THEN <<>>
  ELSE LET type == Disc(msg)
           text == extractText(msg.body)
       IN IF type = None \/ type = <<"session", "started">> \/ type = <<"error">>
          THEN <<>>
          ELSE IF text = <<>> \/ Len(Trim(text)) = 0 THEN <<>>
          ELSE (IF Includes(type, "partial") \/ Includes(type, "committed")
                THEN <<[ev |-> "utterance", text |-> text]>> ELSE <<>>)
               \o (IF Includes(type, "committed")
                   THEN <<[ev |-> "transcription", text |-> text]>> ELSE <<>>)

\* `msg.message_type` with msg === null is a TypeError, thrown out of the listener
Throws(msg) == msg.shape = "null"

\* ws.on('message'): the events one recognizer message emits, in order
Classify(msg) ==
  IF msg.shape = "unparseable" THEN <<>>
  ELSE LET type == Disc(msg)
           text == extractText(msg.body)
       IN IF type = None \/ type = <<"session", "started">> \/ type = <<"error">>
          THEN <<>>
          ELSE IF text = <<>> \/ Len(Trim(text)) = 0 THEN <<>>
          ELSE IF Includes(type, "partial") THEN <<[ev |-> "utterance", text |-> text]>>
          ELSE IF Includes(type, "committed") THEN <<[ev |-> "transcription", text |-> text]>>
          ELSE <<>>

\* JSON.stringify({message_type, audio_base_64, sample_rate}) in send()
AudioChunk(payload) ==
  [message_type |-> "input_audio_chunk", audio_base_64 |-> payload, sample_rate |-> 8000]

Payloads(q) == [i \in 1..Len(q) |-> q[i].audio_base_64]

Reverse(q) == [i \in 1..Len(q) |-> q[Len(q) + 1 - i]]

\* a variant of the open handler that takes the queue from its end (pop)
FlushFromEnd(q) == Reverse(q)

\* `while (pendingMessages.length > 0) ws.send(pendingMessages.shift())`: the
\* messages in the order they are given to ws.send
Flush(q) == q

\* the constructor: connect() returns early without ELEVENLABS_API_KEY
InitStt ==
  /\ variant = "none"
  /\ ready = [s \in Sockets |-> "ABSENT"]
  /\ sent = [s \in Sockets |-> <<>>]
  /\ closeReq = [s \in Sockets |-> 0]
  /\ closeEvt = [s \in Sockets |-> 0]
  /\ closeSkip = [s \in Sockets |-> 0]
  /\ streamSid = NullSid
  /\ responseActive = FALSE
  /\ lastLifecycle = "none"
  /\ calls = <<>>
  /\ pendingTools = {}
  /\ handled = {}
  /\ execLog = <<>>
  /\ rejections = 0
  /\ nFrag = 0
  /\ messages = <<>>
  /\ isThinking = FALSE
  /\ turns = <<>>
  /\ cycleCancels = 0
  /\ nMedia = 0
  /\ nEv = 0
  /\ isOpen = FALSE
  /\ pendingMessages = <<>>
  /\ wsState \in {"NONE", "CONNECTING"}
  /\ transmitted = <<>>
  /\ submitted = <<>>
  /\ flushedAtOpen = 0
  /\ rcvd = <<>>
  /\ emitted = <<>>
  /\ uncaught = 0
  /\ mailed = {}
  /\ bareDone = FALSE
  /\ stopSeen = FALSE
  /\ tts = NewTts
  /\ pair = NoPair

SvcOpen ==
  /\ wsState = "CONNECTING"
  /\ wsState' = "OPEN"
  /\ isOpen' = TRUE
  /\ transmitted' = transmitted \o Flush(pendingMessages)
  /\ pendingMessages' = <<>>
  /\ flushedAtOpen' = Len(pendingMessages)
  /\ UNCHANGED <<relayVars, nEv, submitted, rcvd, emitted, uncaught>>

SvcSend ==
  /\ Len(submitted) < MaxChunks
  /\ LET payload == Len(submitted) + 1
         message == AudioChunk(payload)
     IN /\ submitted' = Append(submitted, payload)
        /\ IF wsState # "NONE" /\ isOpen /\ wsState = "OPEN"
           THEN /\ transmitted' = Append(transmitted, message)
                /\ UNCHANGED pendingMessages
           ELSE /\ pendingMessages' = Append(pendingMessages, message)
                /\ UNCHANGED transmitted
  /\ UNCHANGED <<relayVars, nEv, isOpen, wsState, flushedAtOpen, rcvd, emitted, uncaught>>

SvcMessage ==
  /\ wsState \in {"OPEN", "CLOSING"}
  /\ Len(rcvd) < MaxSttMsgs
  /\ \E msg \in SttMessages :
       /\ rcvd' = Append(rcvd, msg)
       /\ IF Throws(msg)
          THEN /\ uncaught' = uncaught + 1
               /\ UNCHANGED emitted
          ELSE /\ emitted' = emitted \o
                    [i \in 1..Len(Classify(msg)) |->
                       [ev |-> Classify(msg)[i].ev, text |-> Classify(msg)[i].text,
                        of |-> Len(rcvd) + 1]]
               /\ UNCHANGED uncaught
  /\ UNCHANGED <<relayVars, nEv, isOpen, pendingMessages, wsState, transmitted,
                 submitted, flushedAtOpen>>

\* the closing handshake starts: readyState is CLOSING before 'close' is emitted
SvcClosing ==
  /\ wsState = "OPEN"
  /\ wsState' = "CLOSING"
  /\ UNCHANGED <<relayVars, nEv, isOpen, pendingMessages, transmitted, submitted,
                 flushedAtOpen, rcvd, emitted, uncaught>>

SvcClose ==
  /\ wsState \in {"CONNECTING", "OPEN", "CLOSING"}
  /\ wsState' = "CLOSED"
  /\ isOpen' = FALSE
  /\ UNCHANGED <<relayVars, nEv, pendingMessages, transmitted, submitted,
                 flushedAtOpen, rcvd, emitted, uncaught>>

\* ws.on('error') only logs
SvcError ==
  /\ wsState \in {"CONNECTING", "OPEN", "CLOSING"}
  /\ nEv < MaxSvcErrors
  /\ nEv' = nEv + 1
  /\ UNCHANGED <<relayVars, svcVars>>

SttNext == SvcOpen \/ SvcSend \/ SvcMessage \/ SvcClosing \/ SvcClose \/ SvcError

SpecStt == InitStt /\ [][SttNext]_vars

(* =================== two concurrent call sessions ======================= *)
\* Every connection callback declares its own streamSid, responseActive /
\* isThinking and messages and creates its own provider sockets.  Two
\* connections of one server process are followed; pair.on is the session on
\* whose socket the latest event arrived.
Sess == {1, 2}
PairVariants == {"realtime", "chat"}
PairSid(s) == IF s = 1 THEN "MZ1" ELSE "MZ2"

\* a variant where the variables are declared once, outside the callback
CellShared(s) == 1

\* the instance of the callback's `let` variables that the handlers of
\* session s read and write: the one of their own closure
Cell(s) == s

\* session state: the closure's variables (streamSid, active, nUser) and what
\* the handlers did to the session's own sockets (open, out, closeReq)
PairIdle == [streamSid |-> NullSid, active |-> FALSE, nUser |-> 0,
             open |-> FALSE, out |-> <<>>, closeReq |-> 0]

InitPair ==
  /\ variant = "none"
  /\ ready = [s \in Sockets |-> "ABSENT"]
  /\ sent = [s \in Sockets |-> <<>>]
  /\ closeReq = [s \in Sockets |-> 0]
  /\ closeEvt = [s \in Sockets |-> 0]
  /\ closeSkip = [s \in Sockets |-> 0]
  /\ streamSid = NullSid
  /\ responseActive = FALSE
  /\ lastLifecycle = "none"
  /\ calls = <<>>
  /\ pendingTools = {}
  /\ handled = {}
  /\ execLog = <<>>
  /\ rejections = 0
  /\ nFrag = 0
  /\ messages = <<>>
  /\ isThinking = FALSE
  /\ turns = <<>>
  /\ cycleCancels = 0
  /\ nMedia = 0
  /\ nEv = 0
  /\ isOpen = FALSE
  /\ pendingMessages = <<>>
  /\ wsState = "NONE"
  /\ transmitted = <<>>
  /\ submitted = <<>>
  /\ flushedAtOpen = 0
  /\ rcvd = <<>>
  /\ emitted = <<>>
  /\ uncaught = 0
  /\ mailed = {}
  /\ bareDone = FALSE
  /\ stopSeen = FALSE
  /\ tts = NewTts
  /\ \E v \in PairVariants :
       pair = [on |-> 0, v |-> v, n |-> 0, st |-> [s \in Sess |-> PairIdle]]

allButPair == <<variant, ready, sent, closeReq, closeEvt, closeSkip, streamSid,
                responseActive, lastLifecycle, calls, pendingTools, handled,
                execLog, rejections, nFrag, messages, isThinking, turns,
                cycleCancels, nMedia, nEv, svcVars, mailed, bareDone, stopSeen, tts>>

\* the event arrived on a socket of session s; st is the new session state
PairStep(s, st) ==
  /\ pair.n < MaxPairEvents
  /\ pair' = [on |-> s, v |-> pair.v, n |-> pair.n + 1, st |-> st]
  /\ UNCHANGED allButPair

\* the session's sending socket handlers append to the session's own sockets
PairOut(st, s, m) == [st EXCEPT ![s].out = Append(@, m)]

\* openAiWs.on('open') / elevenLabsSttWs.on('open')
PairProviderOpen ==
  \E s \in Sess :
    /\ ~pair.st[s].open /\ pair.st[s].closeReq = 0
    /\ PairStep(s, [pair.st EXCEPT ![s].open = TRUE])

\* case 'start': streamSid = data.start.streamSid
PairCarrierStart ==
  \E s \in Sess :
    PairStep(s, [pair.st EXCEPT ![Cell(s)].streamSid = PairSid(s)])

\* case 'media'
PairCarrierMedia ==
  \E s \in Sess :
    PairStep(s, IF pair.st[s].open THEN PairOut(pair.st, s, "audio") ELSE pair.st)

\* case 'stop'
PairCarrierStop ==
  \E s \in Sess :
    PairStep(s, IF pair.st[s].open
                THEN [pair.st EXCEPT ![s].open = FALSE, ![s].closeReq = @ + 1]
                ELSE pair.st)

\* response.created (realtime); a committed transcript: messages.push and
\* generateResponse up to the guard (chat)
PairTurnStarts ==
  \E s \in Sess :
    /\ pair.st[s].open
    /\ PairStep(s,
         IF pair.v = "realtime"
         THEN [pair.st EXCEPT ![Cell(s)].active = TRUE]
         ELSE [pair.st EXCEPT ![Cell(s)].nUser = @ + 1, ![Cell(s)].active = TRUE])

\* response.done (realtime); the end of generateResponse (chat)
PairTurnEnds ==
  \E s \in Sess :
    /\ pair.st[Cell(s)].active
    /\ PairStep(s, [pair.st EXCEPT ![Cell(s)].active = FALSE])

\* input_audio_buffer.speech_started (realtime)
PairSpeechStarted ==
  \E s \in Sess :
    /\ pair.v = "realtime" /\ pair.st[s].open
    /\ PairStep(s,
         IF pair.st[Cell(s)].streamSid # NullSid
         THEN IF pair.st[Cell(s)].active
              THEN PairOut(PairOut(pair.st, s, "clear"), s, "response.cancel")
              ELSE PairOut(pair.st, s, "clear")
         ELSE pair.st)

PairNext ==
  \/ PairProviderOpen \/ PairCarrierStart \/ PairCarrierMedia \/ PairCarrierStop
  \/ PairTurnStarts \/ PairTurnEnds \/ PairSpeechStarted

SpecPair == InitPair /\ [][PairNext]_vars

(* ------------------------- TextToSpeechService -------------------------- *)
\* process.env as generate() reads it: both variables set, or one missing
TtsEnvs == {"ok", "noApiKey", "noVoiceId"}

\* partialResponse of a reply: empty or not
Replies == {"", "hi"}

\* the other variables are those of a process in which no relay session runs
InitTts ==
  /\ variant = "none"
  /\ ready = [s \in Sockets |-> "ABSENT"]
  /\ sent = [s \in Sockets |-> <<>>]
  /\ closeReq = [s \in Sockets |-> 0]
  /\ closeEvt = [s \in Sockets |-> 0]
  /\ closeSkip = [s \in Sockets |-> 0]
  /\ streamSid = NullSid
  /\ responseActive = FALSE
  /\ lastLifecycle = "none"
  /\ calls = <<>>
  /\ pendingTools = {}
  /\ handled = {}
  /\ execLog = <<>>
  /\ rejections = 0
  /\ nFrag = 0
  /\ messages = <<>>
  /\ isThinking = FALSE
  /\ turns = <<>>
  /\ cycleCancels = 0
  /\ nMedia = 0
  /\ nEv = 0
  /\ isOpen = FALSE
  /\ pendingMessages = <<>>
  /\ wsState = "NONE"
  /\ transmitted = <<>>
  /\ submitted = <<>>
  /\ flushedAtOpen = 0
  /\ rcvd = <<>>
  /\ emitted = <<>>
  /\ uncaught = 0
  /\ mailed = {}
  /\ bareDone = FALSE
  /\ stopSeen = FALSE
  /\ \E e \in TtsEnvs : tts = [NewTts EXCEPT !.env = e]
  /\ pair = NoPair

\* the variables of the service apart from tts
allButTts ==
  <<variant, ready, sent, closeReq, closeEvt, closeSkip, streamSid, responseActive,
    lastLifecycle, calls, pendingTools, handled, execLog, rejections, nFrag,
    messages, isThinking, turns, cycleCancels, nMedia, nEv, isOpen,
    pendingMessages, wsState, transmitted, submitted, flushedAtOpen, rcvd,
    emitted, uncaught, mailed, bareDone, pair, stopSeen>>

\* call i (1-based position, partialResponseIndex i - 1) moves to state st: an
\* await it is suspended at, or the way it returned (what it logged)
TtsMove(i, st) == tts' = [tts EXCEPT !.calls[i].st = st]

\* generate() up to its first await: the early returns and the fetch() call;
\* the caller passes partialResponseIndex 0, 1, 2, ... and does not wait
TtsGenerate ==
  /\ Len(tts.calls) < MaxReplies
  /\ \E partialResponse \in Replies :
       LET partialResponseIndex == Len(tts.calls)
           st == IF partialResponse = "" THEN "skipped"
                 ELSE IF tts.env # "ok" THEN "missingEnv"
                 ELSE "fetch"
       IN tts' = [tts EXCEPT !.calls = Append(@,
                    [index |-> partialResponseIndex, text |-> partialResponse,
                     st |-> st])]
  /\ UNCHANGED allButTts

\* `await fetch(...)` resolves: status 200 goes on to read the body, any other
\* status to log the error text
TtsFetchResolves ==
  /\ \E i \in 1..Len(tts.calls), status \in {200, 500} :
       /\ tts.calls[i].st = "fetch"
       /\ TtsMove(i, IF status = 200 THEN "arrayBuffer" ELSE "text")
  /\ UNCHANGED allButTts

\* `await fetch(...)` rejects: the outer catch logs
TtsFetchRejects ==
  /\ \E i \in 1..Len(tts.calls) :
       /\ tts.calls[i].st = "fetch"
       /\ TtsMove(i, "fetchError")
  /\ UNCHANGED allButTts

\* `await response.arrayBuffer()` resolves: 'speech' is emitted at once
TtsBodyResolves ==
  /\ \E i \in 1..Len(tts.calls) :
       /\ tts.calls[i].st = "arrayBuffer"
       /\ tts' = [tts EXCEPT !.calls[i].st = "emitted",
                             !.speech = Append(@, [index |-> tts.calls[i].index,
                                                   text |-> tts.calls[i].text])]
  /\ UNCHANGED allButTts

\* `await response.arrayBuffer()` rejects: the inner catch logs
TtsBodyRejects ==
  /\ \E i \in 1..Len(tts.calls) :
       /\ tts.calls[i].st = "arrayBuffer"
       /\ TtsMove(i, "bodyError")
  /\ UNCHANGED allButTts

\* `await response.text()` settles: the text is logged, or the outer catch logs
TtsErrorTextSettles ==
  /\ \E i \in 1..Len(tts.calls) :
       /\ tts.calls[i].st = "text"
       /\ TtsMove(i, "statusError")
  /\ UNCHANGED allButTts

TtsNext ==
  \/ TtsGenerate \/ TtsFetchResolves \/ TtsFetchRejects
  \/ TtsBodyResolves \/ TtsBodyRejects \/ TtsErrorTextSettles

SpecTts == InitTts /\ [][TtsNext]_vars

(* ================================ claims ================================ *)
Cancels(log) == Count(log["model"], "response.cancel")
Clears(log) == Count(log["carrier"], "clear")
ActiveTurns(ts) == {t \in 1..Len(ts) : ts[t].pc # "done"}

\* C1: in the chat-completions relay at most one completion request is in
\* flight at any time, and a committed transcript that arrives while a turn is
\* active is appended to the transcript and starts no request.
C1_OneRequestInFlight ==
  [][ /\ Cardinality(InFlight(turns')) <= 1
      /\ (ChatSttCommitted /\ ActiveTurns(turns) # {} /\ messages' # messages)
           => /\ Len(turns') = Len(turns)
              /\ Len(messages') = Len(messages) + 1
              /\ messages'[Len(messages')].role = "user" ]_vars

\* a follow-up turn (started after tool results) is in flight, and a transcript
\* arrived while the e-mail send of the tool was awaited
C1_Witness ==
  /\ \E t \in InFlight(turns) : turns[t].parent # 0
  /\ \E i \in 1..(Len(messages) - 1) :
       /\ messages[i].role = "assistant" /\ messages[i].ntools > 0
       /\ messages[i + 1].role = "user"

\* C2: in the realtime relay a response.cancel is sent only while a response
\* is active, that is when the latest lifecycle event received from the model
\* is response.created; never before the first response.created nor after the
\* matching response.done.
C2_CancelOnlyWhileActive ==
  [][Cancels(sent') # Cancels(sent) => lastLifecycle = "created"]_vars

\* speech_started was handled after response.done: a clear and no cancel
C2_Witness ==
  /\ variant = "realtime"
  /\ lastLifecycle = "done"
  /\ Clears(sent) >= 1
  /\ Cancels(sent) = 0

\* C3: a media frame is sent to the carrier only with a known stream
\* identifier, in every relay variant.
C3_MediaOnlyWithStreamSid ==
  \A i \in 1..Len(sent["carrier"]) :
    sent["carrier"][i].type = "media" => sent["carrier"][i].sid # NullSid

\* the tools the session instructions allow once per call (part_001 line 190)
SingleUseTools == {"create_appointment"}

Executions(c) == Cardinality({i \in 1..Len(execLog) : execLog[i] = c})
ExecutionsOf(n) == Cardinality({i \in 1..Len(execLog) : calls[execLog[i]].name = n})
OutputsFor(c) ==
  {i \in 1..Len(sent["model"]) :
     sent["model"][i].type = "function_call_output" /\ sent["model"][i].callId = c}

\* C4: a single-use tool invoked twice in one call session executes its side
\* effect exactly once, and the second invocation gets an "already performed"
\* result.
C4_SingleUseExecutesOnce ==
  \A n \in SingleUseTools :
    LET done == {c \in handled : calls[c].name = n}
    IN Cardinality(done) >= 2 =>
         /\ ExecutionsOf(n) = 1
         /\ \E c \in done : \E i \in OutputsFor(c) :
              sent["model"][i].output = "already performed"

\* C5: every tool call with well-formed arguments whose handler has finished
\* was executed at most once and got exactly one function_call_output carrying
\* its call id, directly followed by a response.create.
C5_OneOutputPerToolCall ==
  \A c \in handled :
    calls[c].args = "valid" =>
      /\ Executions(c) <= 1
      /\ Cardinality(OutputsFor(c)) = 1
      /\ \A i \in OutputsFor(c) :
           /\ i < Len(sent["model"])
           /\ sent["model"][i + 1].type = "response.create"

\* C6: no provider socket outlives its call session: once the carrier socket
\* has closed no provider socket is open.
C6_NoProviderOutlivesCall ==
  ready["carrier"] = "CLOSED" =>
    \A p \in Providers(variant) : ready[p] # "OPEN"

\* C7: when a provider leg has closed, the carrier connection and every other
\* provider leg have been closed or asked to close.
C7_LegFailureDrains ==
  \A p \in Providers(variant) :
    ready[p] = "CLOSED" =>
      /\ ready["carrier"] # "OPEN"
      /\ \A q \in Providers(variant) \ {p} : ready[q] # "OPEN"

\* C8: closing is idempotent: the relay requests close on a provider socket
\* only while that socket is OPEN, so no provider socket gets a second close
\* request and none emits a second close event.
C8_CloseIdempotent ==
  [][\A p \in Providers(variant) :
       /\ closeReq'[p] # closeReq[p] => (ready[p] = "OPEN" /\ closeReq'[p] = 1)
       /\ closeEvt'[p] <= 1]_vars

\* a provider socket was asked to close once, and a later stop or carrier
\* close found it CLOSING or CLOSED and left it alone
C8_Witness ==
  \E p \in Providers(variant) : closeReq[p] = 1 /\ closeSkip[p] >= 1

\* C9: in the realtime relay a speech_started received while a response is
\* active and the stream identifier is known sends exactly one clear frame,
\* addressed with the stream identifier, to the carrier and exactly one
\* response.cancel to the model, and does nothing else.
C9_BargeInOneClearOneCancel ==
  [][(RtSpeechStarted /\ responseActive /\ streamSid # NullSid) =>
       /\ Len(sent'["carrier"]) = Len(sent["carrier"]) + 1
       /\ SubSeq(sent'["carrier"], 1, Len(sent["carrier"])) = sent["carrier"]
       /\ sent'["carrier"][Len(sent'["carrier"])].type = "clear"
       /\ sent'["carrier"][Len(sent'["carrier"])].sid = streamSid
       /\ Len(sent'["model"]) = Len(sent["model"]) + 1
       /\ SubSeq(sent'["model"], 1, Len(sent["model"])) = sent["model"]
       /\ sent'["model"][Len(sent'["model"])].type = "response.cancel"
       /\ sent'["stt"] = sent["stt"] /\ sent'["tts"] = sent["tts"]
       /\ ready' = ready /\ closeReq' = closeReq
       /\ responseActive' = responseActive /\ streamSid' = streamSid]_vars

\* a barge-in on an active response has been handled
C9_Witness ==
  /\ variant = "realtime"
  /\ responseActive /\ streamSid # NullSid
  /\ Clears(sent) = 1 /\ Cancels(sent) = 1

\* C10: in the realtime relay every speech_started received while a response
\* is active sends a response.cancel, whether or not the stream identifier is
\* known.
C10_BargeInAlwaysCancels ==
  [][(RtSpeechStarted /\ responseActive) => Cancels(sent') = Cancels(sent) + 1]_vars
Medias(log) == Count(log["carrier"], "media")
Creates(log) == Count(log["model"], "response.create")

\* audio the relay forwarded to provider p
AudioTo(log, p) ==
  SelectSeq(log[p], LAMBDA m : m.type \in {"input_audio_buffer.append", "input_audio_chunk"})

\* the provider that takes the caller's audio in each variant
AudioSink(v) == IF v = "chat" THEN "stt" ELSE "model"

\* C11: in the realtime relay an audio delta that arrives after the current
\* response was cancelled by a barge-in, and before the next response.created,
\* is not forwarded to the carrier.
C11_LateDeltaDiscarded ==
  [][(RtAudioDelta /\ cycleCancels > 0) => Medias(sent') = Medias(sent)]_vars

\* C12: the realtime relay sends response.create only while no response is
\* active.
C12_CreateOnlyWhenIdle ==
  [][Creates(sent') # Creates(sent) => ~responseActive]_vars

\* C13: in the chat-completions relay every committed transcript reaches the
\* model: once no turn is active any more, every user message of the
\* transcript was part of the messages of some completion request.
C13_EveryTranscriptRequested ==
  ActiveTurns(turns) = {} =>
    \A i \in 1..Len(messages) :
      messages[i].role = "user" => \E t \in 1..Len(turns) : turns[t].req >= i

\* C14: carrier audio is forwarded to the model or the recognizer only after
\* the carrier's start message has set the stream identifier.
C14_NoAudioBeforeStart ==
  [][\A p \in Providers(variant) :
       Len(AudioTo(sent', p)) # Len(AudioTo(sent, p)) => streamSid # NullSid]_vars

\* C16: carrier audio received while the provider socket was still connecting
\* is delivered when the socket opens: an open audio provider has been sent
\* every media payload received so far, once and in order.
C16_AudioQueuedUntilOpen ==
  ready[AudioSink(variant)] = "OPEN" =>
    /\ Len(AudioTo(sent, AudioSink(variant))) = nMedia
    /\ \A i \in 1..nMedia : AudioTo(sent, AudioSink(variant))[i].payload = i

\* C19: a tool call with malformed argument JSON runs no side effect and
\* leaves no unhandled promise rejection behind.
C19_MalformedArgsContained ==
  /\ rejections = 0
  /\ \A c \in 1..Len(calls) : calls[c].args = "malformed" => Executions(c) = 0

\* C20: a schedule_meeting call whose arguments carry no reason sends no
\* notification e-mail.
C20_ReasonRequired ==
  \A c \in 1..Len(calls) :
    (calls[c].name = "schedule_meeting" /\ calls[c].args = "noreason")
      => Executions(c) = 0
\* C15: the TranscriptionService transmits every payload at most once and in
\* the order of the send() calls: what was transmitted followed by what is
\* still queued is the sequence of payloads passed to send(), and nothing is
\* queued while the socket is open, so the chunks buffered before the open
\* went out first.
C15_SendQueueFifo ==
  /\ Payloads(transmitted \o pendingMessages) = submitted
  /\ wsState = "OPEN" => pendingMessages = <<>>

\* two chunks were buffered and flushed at open, another was sent afterwards
C15_Witness ==
  /\ flushedAtOpen >= 2
  /\ Len(transmitted) > flushedAtOpen

NonBlank(msg) == Len(Trim(extractText(msg.body))) > 0
EventsOf(i) == {j \in 1..Len(emitted) : emitted[j].of = i}

\* C17: a recognizer message with non-blank text whose discriminator
\* (message_type, else type) is a partial type emits exactly one 'utterance',
\* one whose discriminator is a committed type exactly one 'transcription',
\* and no message emits two events.
C17_ClassifiedOnce ==
  \A i \in 1..Len(rcvd) :
    /\ Cardinality(EventsOf(i)) <= 1
    /\ (rcvd[i].shape = "object" /\ NonBlank(rcvd[i]) /\ Disc(rcvd[i]) = <<"partial", "transcript">>)
         => \E j \in EventsOf(i) :
              emitted[j].ev = "utterance" /\ emitted[j].text = extractText(rcvd[i].body)
    /\ (rcvd[i].shape = "object" /\ NonBlank(rcvd[i]) /\ Disc(rcvd[i]) = <<"committed", "transcript">>)
         => \E j \in EventsOf(i) :
              emitted[j].ev = "transcription" /\ emitted[j].text = extractText(rcvd[i].body)

\* a committed transcript named by the fallback field `type` was emitted
C17_Witness ==
  \E i \in 1..Len(rcvd) :
    /\ rcvd[i].message_type = None
    /\ rcvd[i].type = <<"committed", "transcript">>
    /\ \E j \in EventsOf(i) : emitted[j].ev = "transcription"

\* the messages the service has to drop
Dropped(msg) ==
  \/ msg.shape # "object"
  \/ Disc(msg) \in {None, <<"session", "started">>, <<"error">>, <<"unknown">>}
  \/ ~NonBlank(msg)

\* C18: a recognizer message that is unparseable, has no discriminator, is a
\* session_started or error message, is of an unknown type or has blank text
\* emits no event, raises no error and leaves isOpen and pendingMessages as
\* they were.
C18_NonUtterancesDropped ==
  [][(rcvd' # rcvd /\ Dropped(rcvd'[Len(rcvd')])) =>
       /\ emitted' = emitted
       /\ uncaught' = uncaught
       /\ isOpen' = isOpen
       /\ pendingMessages' = pendingMessages]_vars
\* what sendScheduleEmail has to return for call c
ResultOf(c) ==
  IF c \in mailed THEN "success:Meeting request sent via email."
                  ELSE "failure:Failed to send email."

\* C21: whether the notification mail was sent or not, the tool handler ends
\* normally and hands the model the matching result: success exactly when the
\* mail was sent, failure otherwise, as one function_call_output followed by a
\* response.create (realtime and text relays) or as the tool message of the
\* transcript (chat relay).
C21_MailFailureIsAValue ==
  /\ variant \in {"realtime", "text"} =>
       \A c \in handled :
         (calls[c].name = "schedule_meeting" /\ calls[c].args # "malformed") =>
           /\ Cardinality(OutputsFor(c)) = 1
           /\ \A i \in OutputsFor(c) :
                /\ sent["model"][i].output = ResultOf(c)
                /\ i < Len(sent["model"])
                /\ sent["model"][i + 1].type = "response.create"
  /\ variant = "chat" =>
       \A i \in 1..Len(messages) :
         (messages[i].role = "tool" /\ calls[messages[i].ref].name = "schedule_meeting")
           => messages[i].out = ResultOf(messages[i].ref)
  /\ \A c \in mailed : Executions(c) = 1

\* the mail of a schedule_meeting call failed and its handler has finished
C21_Witness ==
  /\ variant = "realtime"
  /\ \E c \in handled :
       /\ calls[c].name = "schedule_meeting" /\ calls[c].args = "valid"
       /\ c \notin mailed

MediaAt(log) == {i \in 1..Len(log["carrier"]) : log["carrier"][i].type = "media"}

\* C23: the media frames sent to the carrier carry the audio fragments in the
\* order they were received: the fragment numbers of the frames increase
\* strictly, so none is reordered or sent twice.
C23_MediaOrderPreserved ==
  \A i \in MediaAt(sent) : \A j \in MediaAt(sent) :
    i < j => sent["carrier"][i].payload < sent["carrier"][j].payload

\* three fragments were received and at least two of them forwarded
C23_Witness ==
  /\ nFrag >= 3
  /\ Medias(sent) >= 2

Handshake(p) == IF p = "model" THEN "session.update" ELSE "init"

\* C25: on the model leg and on the synthesizer leg the handshake message
\* (session.update, the synthesizer's initialization message) is the first
\* message sent and is sent exactly once.
C25_HandshakeFirstAndOnce ==
  \A p \in Providers(variant) \cap {"model", "tts"} :
    (Len(sent[p]) > 0 \/ ready[p] = "OPEN") =>
      /\ Len(sent[p]) > 0
      /\ sent[p][1].type = Handshake(p)
      /\ Count(sent[p], Handshake(p)) = 1

\* a leg carries its handshake and at least two later messages
C25_Witness ==
  \E p \in Providers(variant) \cap {"model", "tts"} :
    /\ Len(sent[p]) >= 3
    /\ \E i \in 2..Len(sent[p]) :
         sent[p][i].type \in {"input_audio_buffer.append", "function_call_output", "text"}

TextsOf(t) ==
  {i \in 1..Len(sent["tts"]) : sent["tts"][i].type = "text" /\ sent["tts"][i].turn = t}
FlushesOf(t) ==
  {i \in 1..Len(sent["tts"]) : sent["tts"][i].type = "flush" /\ sent["tts"][i].turn = t}

\* C26: in the chat-completions relay the text fragments of a turn reach the
\* synthesizer in the order of the deltas, and once the turn has left its
\* stream, the synthesizer socket being open, exactly one flush of that turn
\* follows its last fragment.
C26_FragmentsThenOneFlush ==
  \A t \in 1..Len(turns) :
    /\ \A i \in TextsOf(t) : \A j \in TextsOf(t) :
         i < j => sent["tts"][i].payload < sent["tts"][j].payload
    /\ (turns[t].pc \notin {"create", "stream"} /\ ready["tts"] = "OPEN" /\ TextsOf(t) # {})
         => /\ Cardinality(FlushesOf(t)) = 1
            /\ \A f \in FlushesOf(t) : \A i \in TextsOf(t) : i < f

\* C27: in the text-modality relay a speech_started sends a clear frame to the
\* carrier when the stream identifier is known, a reset frame to the open
\* synthesizer, and a response.cancel to the model when a response is active.
C27_TextBargeIn ==
  [][TxtSpeechStarted =>
       /\ streamSid # NullSid => Clears(sent') = Clears(sent) + 1
       /\ ready["tts"] = "OPEN" =>
            Count(sent'["tts"], "reset") = Count(sent["tts"], "reset") + 1
       /\ lastLifecycle = "created" => Cancels(sent') = Cancels(sent) + 1]_vars

\* C28: in the realtime relay responseActive is true exactly when the most
\* recent lifecycle event received is response.created, also after a
\* response.done that carries no status_details.
C28_FlagFollowsLifecycle ==
  variant = "realtime" => (responseActive <=> lastLifecycle = "created")

\* a response was active (it was cancelled) and then a response.done without
\* status_details arrived
C28_Witness ==
  /\ variant = "realtime"
  /\ bareDone /\ lastLifecycle = "done"
  /\ Cancels(sent) >= 1

\* C29: in the chat-completions relay isThinking is false whenever no
\* generateResponse activation is left, and a committed transcript with text
\* that arrives then starts a new turn with a request over the whole transcript.
C29_FlagAlwaysReleased ==
  [][ /\ ActiveTurns(turns') = {} => ~isThinking'
      /\ (ChatSttCommitted /\ ActiveTurns(turns) = {} /\ messages' # messages)
           => /\ Len(turns') = Len(turns) + 1
              /\ turns'[Len(turns')].pc = "create"
              /\ turns'[Len(turns')].req = Len(messages') ]_vars

\* a turn with tools and its follow-up turn have finished, and the next
\* transcript has started a third turn
C29_Witness ==
  /\ Len(turns) = 3
  /\ turns[2].parent = 1 /\ turns[1].pc = "done" /\ turns[2].pc = "done"
  /\ turns[3].parent = 0 /\ turns[3].pc = "create"

\* C30: in the transcript of the chat-completions relay an assistant message
\* with tool calls is followed directly by the tool messages of its calls, in
\* order, with no other message between them.
C30_ToolMessagesAdjacent ==
  \A i \in 1..Len(messages) :
    (messages[i].role = "assistant" /\ messages[i].ntools > 0) =>
      \A k \in 1..messages[i].ntools :
        i + k <= Len(messages) =>
          /\ messages[i + k].role = "tool"
          /\ messages[i + k].ref = turns[messages[i].ref].tcs[k]
\* a step that handles a malformed message of the carrier or of a provider
MalformedRelayStep ==
  \/ RtCarrierMalformed \/ RtModelMalformed \/ ChatCarrierMalformed
  \/ ChatSttOther \/ TxtCarrierMalformed \/ TxtModelMalformed

\* a step of the TranscriptionService that receives an unparseable message or
\* one without a discriminator
MalformedServiceStep ==
  /\ rcvd' # rcvd
  /\ LET msg == rcvd'[Len(rcvd')]
     IN msg.shape # "object" \/ Disc(msg) = None

\* C22: a malformed message of the carrier or of a provider is dropped on its
\* own: its handler returns normally, sends nothing, leaves the stream
\* identifier and the active-response flag as they were and closes no socket.
C22_MalformedMessageDropped ==
  [][ /\ MalformedRelayStep =>
           /\ sent' = sent /\ streamSid' = streamSid
           /\ responseActive' = responseActive /\ isThinking' = isThinking
           /\ ready' = ready /\ closeReq' = closeReq
           /\ rejections' = rejections
      /\ MalformedServiceStep =>
           /\ transmitted' = transmitted /\ emitted' = emitted
           /\ wsState' = wsState
           /\ uncaught' = uncaught ]_vars
\* C24: with two concurrent call sessions, an event on a socket of one session
\* leaves the other session's stream identifier, active-turn flag and
\* transcript as they were, sends nothing on the other session's sockets and
\* requests no close on them.
C24_SessionsIsolated ==
  [][\A o \in Sess : o # pair'.on => pair'.st[o] = pair.st[o]]_vars

\* both sessions have their own stream identifier and only the first has an
\* active response
C24_Witness ==
  /\ pair.n > 0
  /\ pair.st[1].streamSid = "MZ1" /\ pair.st[2].streamSid = "MZ2"
  /\ pair.st[1].active /\ ~pair.st[2].active

\* C31: the relay never sends on a model socket that is no longer open: every
\* message handed to the model socket, the function_call_output and the
\* response.create that follow an awaited email send included, is sent while
\* the socket's readyState is OPEN.
C31_NoSendOnClosedModelSocket ==
  [][(RtEmailDone \/ TxtEmailDone) =>
       \A i \in (Len(sent["model"]) + 1)..Len(sent'["model"]) :
          sent'["model"][i].at = "OPEN"]_vars

\* C32: in the realtime relay at most one response.cancel is sent per response
\* cycle, however many speech_started events arrive between response.created
\* and the next response.done.
C32_OneCancelPerCycle == RtOn => cycleCancels <= 1

\* C33: once the carrier's stop message has been processed, no further inbound
\* carrier audio is forwarded to the model or to the recognizer, whether the
\* provider socket was Open or still Connecting at the time of the stop.
C33_NoAudioAfterStop ==
  [][stopSeen =>
       \A p \in {"model", "stt"} : Len(AudioTo(sent', p)) = Len(AudioTo(sent, p))]_vars

\* C34: in the TranscriptionService, whenever isOpen is true the pending queue
\* is empty: a chunk is queued only before the socket has opened, and what was
\* queued is transmitted by the open handler.
C34_OpenMeansQueueEmpty == isOpen => pendingMessages = <<>>

\* C35: the TextToSpeechService delivers speech in reply order: with generate()
\* called for partialResponseIndex 0, 1, 2, ... without waiting, the 'speech'
\* events are emitted in increasing index order.
C35_SpeechInReplyOrder ==
  \A i, j \in 1..Len(tts.speech) :
     i < j => tts.speech[i].index < tts.speech[j].index
====
